---- MODULE Spec2Model ----
(***************************************************************************)
(* A model of extractor.py, the unified Django jobs extractor: the         *)
(* identity key (norm, key_for), the merger (score, dedupe), the           *)
(* builtwithdjango.com detail-page parser (parse_bwd_jobs) and the batch   *)
(* run (build_feed, write_rss, main).                                      *)
(*                                                                         *)
(* Python values are modelled as tuples of one-character strings (a str),  *)
(* the tuple None (Python's None) and the tuple NonStr (a truthy JSON      *)
(* value that is not a string: an object or a number).                     *)
(***************************************************************************)
EXTENDS Integers, Sequences, FiniteSets

VARIABLES
    kRole, kSuffix, kCompany, kKeys,
    dJobs, dPrior, dPhase, deduped, stats, deduped2, stats2,
    feed, listing, pc, pyJobs, bwdJobs, payload, jsonFile, rssFile, failure

keyVars == <<kRole, kSuffix, kCompany, kKeys>>
dedupeVars == <<dJobs, dPrior, dPhase, deduped, stats, deduped2, stats2>>
mainVars == <<feed, listing, pc, pyJobs, bwdJobs, payload, jsonFile, rssFile, failure>>
vars == <<keyVars, dedupeVars, mainVars>>

----------------------------------------------------------------------------
(* Python values *)

None == <<"None">>
NonStr == <<"NonStr">>

\* Python truthiness of an optional str / list: None and the empty value are falsy.
Truthy(v) == v /= None /\ v /= <<>>

Range(s) == {s[i] : i \in 1..Len(s)}

SetMin(S) == CHOOSE x \in S : \A y \in S : x <= y
SetMax(S) == CHOOSE x \in S : \A y \in S : x >= y

----------------------------------------------------------------------------
(* str methods and the two regular expressions of norm *)

LowerChar(c) ==
    CASE c = "A" -> "a"
      [] c = "B" -> "b"
      [] c = "C" -> "c"
      [] c = "D" -> "d"
      [] c = "E" -> "e"
      [] c = "S" -> "s"
      [] OTHER -> c

\* str.lower()
Lower(s) == [i \in 1..Len(s) |-> LowerChar(s[i])]

SpaceChars == {" ", "\t", "\n"}

\* str.strip()
Strip(s) ==
    LET keep == {i \in 1..Len(s) : s[i] \notin SpaceChars}
    IN  IF keep = {} THEN <<>> ELSE SubSeq(s, SetMin(keep), SetMax(keep))

\* s.split(c, 1)[0]: the portion before the first c (all of s when c is not in s)
SplitHead(s, c) ==
    LET at == {i \in 1..Len(s) : s[i] = c}
    IN  IF at = {} THEN s ELSE SubSeq(s, 1, SetMin(at) - 1)

\* s.split(c, 1)[1]: the portion after the first c (c is in s)
SplitTail(s, c) ==
    LET at == {i \in 1..Len(s) : s[i] = c}
    IN  SubSeq(s, SetMin(at) + 1, Len(s))

AlnumChars ==
    {"a", "b", "c", "d", "e", "f", "g", "h", "i", "j", "k", "l", "m", "n", "o",
     "p", "q", "r", "s", "t", "u", "v", "w", "x", "y", "z",
     "0", "1", "2", "3", "4", "5", "6", "7", "8", "9"}

\* re.sub(r"[^a-z0-9]+", " ", s): every run of non-alphanumerics becomes one space
RECURSIVE SubNonAlnum(_, _)
SubNonAlnum(s, i) ==
    IF i > Len(s) THEN <<>>
    ELSE (IF s[i] \in AlnumChars THEN <<s[i]>>
          ELSE IF i = 1 \/ s[i - 1] \in AlnumChars THEN <<" ">>
          ELSE <<>>) \o SubNonAlnum(s, i + 1)

\* re.sub(r"\s+", " ", s): every run of whitespace becomes one space
RECURSIVE SubSpaces(_, _)
SubSpaces(s, i) ==
    IF i > Len(s) THEN <<>>
    ELSE (IF s[i] \notin SpaceChars THEN <<s[i]>>
          ELSE IF i = 1 \/ s[i - 1] \notin SpaceChars THEN <<" ">>
          ELSE <<>>) \o SubSpaces(s, i + 1)

norm(value) ==
    IF ~Truthy(value) THEN <<>>
    ELSE LET lowered == Strip(Lower(value))
             spaced == SubNonAlnum(lowered, 1)
         IN  Strip(SubSpaces(spaced, 1))

\* a key_for whose comma split is skipped when the title held an "@"
key_for_exclusive(title, company) ==
    LET raw0 == Strip(Lower(IF Truthy(title) THEN title ELSE <<>>))
        raw2 == IF "@" \in Range(raw0) THEN Strip(SplitHead(raw0, "@"))
                ELSE IF "," \in Range(raw0) THEN Strip(SplitHead(raw0, ","))
                ELSE raw0
    IN  norm(raw2) \o <<"|">> \o norm(company)

\* a key_for that never splits on the comma
key_for_no_comma(title, company) ==
    LET raw0 == Strip(Lower(IF Truthy(title) THEN title ELSE <<>>))
        raw1 == IF "@" \in Range(raw0) THEN Strip(SplitHead(raw0, "@")) ELSE raw0
    IN  norm(raw1) \o <<"|">> \o norm(company)

key_for(title, company) ==
    LET raw0 == Strip(Lower(IF Truthy(title) THEN title ELSE <<>>))
        raw1 == IF "@" \in Range(raw0) THEN Strip(SplitHead(raw0, "@")) ELSE raw0
        raw2 == IF "," \in Range(raw1) THEN Strip(SplitHead(raw1, ",")) ELSE raw1
    IN  norm(raw2) \o <<"|">> \o norm(company)

----------------------------------------------------------------------------
(* key_for on a role and its two "role + company mention" spellings *)

MaxRoleLen == 3

RoleChars == {"a", "B", " ", ",", "@"}

RECURSIVE StrsUpTo(_, _)
StrsUpTo(chars, n) ==
    IF n = 0 THEN {<<>>}
    ELSE LET shorter == StrsUpTo(chars, n - 1)
         IN  shorter \cup {Append(s, c) : s \in shorter, c \in chars}

Roles == StrsUpTo(RoleChars, MaxRoleLen)

Suffixes == {<<"B">>, <<"a", " ", "B">>, <<"a", ",", "B">>, <<"a", "@", "B">>}

KeyCompanies == {None, <<>>, <<"A", "-", "b">>}

Variants == {"plain", "comma", "at"}

\* the title of each spelling: role, role + ", " + suffix, role + " @ " + suffix
TitleOf(v) ==
    CASE v = "plain" -> kRole
      [] v = "comma" -> kRole \o <<",", " ">> \o kSuffix
      [] v = "at" -> kRole \o <<" ", "@", " ">> \o kSuffix

NoKey == None

IdleKey ==
    /\ kRole = <<>>
    /\ kSuffix = <<>>
    /\ kCompany = None
    /\ kKeys = [v \in Variants |-> NoKey]

InitKey ==
    /\ kRole \in Roles
    /\ kSuffix \in Suffixes
    /\ kCompany \in KeyCompanies
    /\ kKeys = [v \in Variants |-> NoKey]

\* one call key_for(title, company), as test_key_normalizes_title_variants makes
CallKeyFor(v) ==
    /\ kKeys[v] = NoKey
    /\ kKeys' = [kKeys EXCEPT ![v] = key_for(TitleOf(v), kCompany)]
    /\ UNCHANGED <<kRole, kSuffix, kCompany>>
    /\ UNCHANGED dedupeVars
    /\ UNCHANGED mainVars

NextKey == \E v \in Variants : CallKeyFor(v)

(* C4: for one role, suffix and company, every key computed so far is the
   same key: key_for(role + ", " + suffix, company),
   key_for(role + " @ " + suffix, company) and key_for(role, company) agree,
   also when the role itself holds a comma or an "@". *)
C4_KeySameForAllSpellings ==
    \A v, w \in Variants :
        (kKeys[v] /= NoKey /\ kKeys[w] /= NoKey) => kKeys[v] = kKeys[w]

C4_Witness ==
    /\ \A v \in Variants : kKeys[v] /= NoKey
    /\ "," \in Range(kRole)
    /\ "a" = kRole[1]
    /\ Truthy(kCompany)
    /\ kKeys["at"] = <<"a", "|", "a", " ", "b">>

\* the portion of t before its first "@" or ",", whichever comes first
BeforeFirstSeparator(t) ==
    LET at == {i \in 1..Len(t) : t[i] \in {"@", ","}}
    IN  IF at = {} THEN t ELSE SubSeq(t, 1, SetMin(at) - 1)

(* C9 as stated: when the lowercased, trimmed title holds an "@", the role
   part of the key is the normalization of everything before the first "@",
   with no comma split applied to it. *)
C9_AtSplitExcludesCommaSplit ==
    \A v \in Variants :
        LET t == Strip(Lower(TitleOf(v)))
        IN  (kKeys[v] /= NoKey /\ "@" \in Range(t))
                => kKeys[v] = norm(SplitHead(t, "@")) \o <<"|">> \o norm(kCompany)

(* C9 amended: the two splits are applied one after the other, so the role
   part of the key is the normalization of the portion of the lowercased,
   trimmed title before its first "@" or ",", whichever comes first. *)
C9_RoleIsBeforeFirstSeparator ==
    \A v \in Variants :
        kKeys[v] /= NoKey
            => kKeys[v] = norm(BeforeFirstSeparator(Strip(Lower(TitleOf(v)))))
                              \o <<"|">> \o norm(kCompany)

\* a title with a comma and a later "@": the key keeps only the text before the comma
C9_Witness ==
    /\ kRole = <<"a", ",", "B">>
    /\ kCompany = <<"A", "-", "b">>
    /\ kKeys["at"] = <<"a", "|", "a", " ", "b">>


----------------------------------------------------------------------------
(* The merger: score and dedupe *)

ScoreFields ==
    {"company", "location", "date_posted", "salary", "employment_type", "skills",
     "full_offer_text", "apply_url", "company_url", "image_url"}

score(job) == Cardinality({f \in ScoreFields : Truthy(job[f])})

\* len(job.full_offer_text or "")
TextLen(job) == IF Truthy(job.full_offer_text) THEN Len(job.full_offer_text) ELSE 0

\* a comparison in which an equally long text also replaces the existing record
Better_or_equal(job, existing) ==
    \/ score(job) > score(existing)
    \/ /\ score(job) = score(existing)
       /\ TextLen(job) >= TextLen(existing)

\* a comparison that looks at the text length before the score
Better_text_first(job, existing) ==
    \/ TextLen(job) > TextLen(existing)
    \/ /\ TextLen(job) = TextLen(existing)
       /\ score(job) > score(existing)

\* the condition of dedupe under which job replaces existing
Better(job, existing) ==
    \/ score(job) > score(existing)
    \/ /\ score(job) = score(existing)
       /\ TextLen(job) > TextLen(existing)

\* a dedupe that keeps a dedupe_key the job already carries
Keyed_keep_prior(job, key) ==
    IF job.dedupe_key /= None THEN job ELSE [job EXCEPT !.dedupe_key = key]

\* job.dedupe_key = key
Keyed(job, key) == [job EXCEPT !.dedupe_key = key]

\* by_key is a dict: the sequence of its items in insertion order
KeyIndex(by_key, key) == {i \in 1..Len(by_key) : by_key[i].key = key}

DropAt(seq, i) == SubSeq(seq, 1, i - 1) \o SubSeq(seq, i + 1, Len(seq))

\* a replacement that deletes the key and inserts it again, at the end
Replace_at_end(by_key, i, job) ==
    Append(DropAt(by_key, i), [key |-> by_key[i].key, job |-> job])

\* by_key[key] = job for a key the dict holds: the key keeps its place
Replace(by_key, i, job) == [by_key EXCEPT ![i].job = job]

\* one iteration of the loop of dedupe
DedupeStep(by_key, job) ==
    LET key == key_for(job.title, job.company)
        keyed == Keyed(job, key)
        at == KeyIndex(by_key, key)
    IN  IF at = {} THEN Append(by_key, [key |-> key, job |-> keyed])
        ELSE LET i == CHOOSE i \in at : TRUE
             IN  IF Better(keyed, by_key[i].job) THEN Replace(by_key, i, keyed)
                 ELSE by_key

RECURSIVE DedupeLoop(_, _, _)
DedupeLoop(jobs, i, by_key) ==
    IF i > Len(jobs) THEN by_key
    ELSE DedupeLoop(jobs, i + 1, DedupeStep(by_key, jobs[i]))

\* a list built by inserting each value at the front
Values_newest_first(by_key) ==
    [i \in 1..Len(by_key) |-> by_key[Len(by_key) + 1 - i].job]

\* list(by_key.values())
Values(by_key) == [i \in 1..Len(by_key) |-> by_key[i].job]

\* stats whose input_count is taken from the wrong list
Stats_input_from_output(jobs, out) ==
    [input_count |-> Len(out),
     output_count |-> Len(out),
     duplicates_removed |-> Len(jobs) - Len(out)]

Stats(jobs, out) ==
    [input_count |-> Len(jobs),
     output_count |-> Len(out),
     duplicates_removed |-> Len(jobs) - Len(out)]

\* the list returned by dedupe(jobs)
dedupe(jobs) == Values(DedupeLoop(jobs, 1, <<>>))

\* the jobs of the caller's list after dedupe(jobs): every one had its dedupe_key set
Rekeyed(jobs) ==
    [i \in 1..Len(jobs) |-> Keyed(jobs[i], key_for(jobs[i].title, jobs[i].company))]

----------------------------------------------------------------------------
(* dedupe on lists of hand-built Jobs, as test_dedupe_keeps_richer_record calls it *)

MaxJobs == 3

Company == <<"A", "b">>
TitleDev == <<"D", "e", "v">>
TitleDevAt == <<"D", "e", "v", " ", "@", " ", "A", "b">>
TitleOps == <<"o", "p", "s">>
StaleKey == <<"o", "l", "d">>

MkJob(title, location, text) ==
    [id |-> 0, title |-> title, company |-> Company, location |-> location,
     date_posted |-> None, salary |-> None, employment_type |-> None,
     skills |-> None, full_offer_text |-> text, apply_url |-> None,
     company_url |-> None, image_url |-> None, dedupe_key |-> None]

JobPool ==
    {MkJob(TitleDev, l, x) : l \in {None, <<"x">>}, x \in {None, <<"s">>, <<"l", "l">>}}
    \cup {MkJob(TitleDevAt, None, <<"s">>), MkJob(TitleDevAt, <<"x">>, <<"s">>),
          MkJob(TitleDevAt, <<"x">>, <<"l", "l">>)}
    \cup {MkJob(TitleOps, None, None), MkJob(TitleOps, <<"x">>, <<"l", "l">>)}

\* what the dedupe_key of the jobs holds before the call
Priors == {"unset", "stale"}

PriorKey(job, prior) ==
    CASE prior = "unset" -> None
      [] prior = "stale" -> StaleKey

\* the jobs of a list are distinct objects: each gets its position as its id
Numbered(list, prior) ==
    [i \in 1..Len(list) |->
        [list[i] EXCEPT !.id = i, !.dedupe_key = PriorKey(list[i], prior)]]

JobLists == UNION {[1..n -> JobPool] : n \in 0..MaxJobs}

NoStats == [input_count |-> 0, output_count |-> 0, duplicates_removed |-> 0]

IdleDedupe ==
    /\ dJobs = <<>>
    /\ dPrior = "unset"
    /\ dPhase = "idle"
    /\ deduped = <<>>
    /\ stats = NoStats
    /\ deduped2 = <<>>
    /\ stats2 = NoStats

InitDedupe ==
    /\ dPrior \in Priors
    /\ dJobs \in {Numbered(list, dPrior) : list \in JobLists}
    /\ dPhase = "input"
    /\ deduped = <<>>
    /\ stats = NoStats
    /\ deduped2 = <<>>
    /\ stats2 = NoStats

\* out, stats = dedupe(jobs)
Dedupe ==
    /\ dPhase = "input"
    /\ deduped' = dedupe(dJobs)
    /\ stats' = Stats(dJobs, deduped')
    /\ dJobs' = Rekeyed(dJobs)
    /\ dPhase' = "merged"
    /\ UNCHANGED <<dPrior, deduped2, stats2>>
    /\ UNCHANGED keyVars
    /\ UNCHANGED mainVars

\* out2, stats2 = dedupe(out)
DedupeAgain ==
    /\ dPhase = "merged"
    /\ deduped2' = dedupe(deduped)
    /\ stats2' = Stats(deduped, deduped2')
    /\ deduped' = Rekeyed(deduped)
    /\ dPhase' = "remerged"
    /\ UNCHANGED <<dJobs, dPrior, stats>>
    /\ UNCHANGED keyVars
    /\ UNCHANGED mainVars

NextDedupe == Dedupe \/ DedupeAgain

Merged == dPhase \in {"merged", "remerged"}

KeyOf(job) == key_for(job.title, job.company)

\* the positions of the input postings that share the key of posting i
SameKey(i) == {j \in 1..Len(dJobs) : KeyOf(dJobs[j]) = KeyOf(dJobs[i])}

Survives(i) == \E s \in 1..Len(deduped) : deduped[s].id = i

\* the key of every input posting and of every survivor, as key_for gives it
\* (a formula binds them with \A x \in {...} so that each is computed once per state)
InputKeys == [i \in 1..Len(dJobs) |-> KeyOf(dJobs[i])]
OutputKeys == [s \in 1..Len(deduped) |-> KeyOf(deduped[s])]

(* C1: after dedupe, every input posting's key has a survivor, and each
   survivor of that key has a score at least that of every input posting with
   the key: the richer of two same-key postings survives in either order. *)
C1_SurvivorHasMaxScore ==
    Merged =>
        \A ik \in {InputKeys} : \A ok \in {OutputKeys} :
            \A i \in 1..Len(dJobs) :
                /\ \E s \in 1..Len(deduped) : ok[s] = ik[i]
                /\ \A s \in 1..Len(deduped) :
                    ok[s] = ik[i] => score(deduped[s]) >= score(dJobs[i])

\* the richer posting comes second and has the shorter text; it survives
C1_Witness ==
    /\ Merged
    /\ \E i, j \in 1..Len(dJobs) :
        /\ i < j
        /\ j \in SameKey(i)
        /\ score(dJobs[i]) < score(dJobs[j])
        /\ TextLen(dJobs[i]) > TextLen(dJobs[j])
        /\ Survives(j)
        /\ ~Survives(i)

(* C2: the stats of dedupe satisfy output_count + duplicates_removed =
   input_count, with input_count the length of the input list, output_count
   the length of the survivor list and duplicates_removed never negative. *)
C2_StatsAddUp ==
    /\ Merged =>
        /\ stats.output_count + stats.duplicates_removed = stats.input_count
        /\ stats.input_count = Len(dJobs)
        /\ stats.output_count = Len(deduped)
        /\ stats.duplicates_removed >= 0
    /\ dPhase = "remerged" =>
        /\ stats2.output_count + stats2.duplicates_removed = stats2.input_count
        /\ stats2.input_count = Len(deduped)
        /\ stats2.output_count = Len(deduped2)
        /\ stats2.duplicates_removed >= 0

\* three postings of one key: two duplicates removed
C2_Witness ==
    /\ dPhase = "merged"
    /\ Len(dJobs) = MaxJobs
    /\ Len(deduped) = 1
    /\ stats.duplicates_removed = MaxJobs - 1

(* C3: dedupe applied to the survivor list of a dedupe returns the same
   postings in the same order, with duplicates_removed = 0 and
   output_count = input_count. *)
C3_DedupeIdempotent ==
    dPhase = "remerged" =>
        /\ deduped2 = deduped
        /\ stats2.duplicates_removed = 0
        /\ stats2.output_count = stats2.input_count

\* the first dedupe removed a duplicate and kept two postings
C3_Witness ==
    /\ dPhase = "remerged"
    /\ Len(deduped) >= 2
    /\ Len(dJobs) > Len(deduped)
    /\ deduped2 = deduped

(* C5: of two input postings with the same key and equal score, the one with
   the shorter full_offer_text (an absent text has length 0) never survives,
   whichever comes first; with equal score and equal length the later one
   never survives; and every key keeps a survivor. *)
C5_LongerTextThenFirstSeen ==
    Merged =>
        \A ik \in {InputKeys} : \A ok \in {OutputKeys} :
        \A sc \in {[i \in 1..Len(dJobs) |-> score(dJobs[i])]} :
        \A tl \in {[i \in 1..Len(dJobs) |-> TextLen(dJobs[i])]} :
            \A i \in 1..Len(dJobs) :
                /\ \E s \in 1..Len(deduped) : ok[s] = ik[i]
                /\ \A j \in 1..Len(dJobs) :
                    /\ (ik[j] = ik[i] /\ sc[i] = sc[j] /\ tl[i] < tl[j])
                          => ~Survives(i)
                    /\ (ik[j] = ik[i] /\ sc[i] = sc[j] /\ tl[i] = tl[j] /\ i < j)
                          => ~Survives(j)

\* equal scores: a posting with no text, then two with the same longer text
C5_Witness ==
    /\ Merged
    /\ Len(dJobs) = 3
    /\ SameKey(1) = {1, 2, 3}
    /\ score(dJobs[1]) = score(dJobs[2])
    /\ score(dJobs[2]) = score(dJobs[3])
    /\ dJobs[1].full_offer_text = None
    /\ TextLen(dJobs[2]) > 0
    /\ TextLen(dJobs[3]) = TextLen(dJobs[2])
    /\ Survives(2)
    /\ Len(deduped) = 1

(* C8: the survivors are in group-first-seen order: one survivor precedes
   another exactly when the first input posting with its key precedes the
   first input posting with the other's key. *)
C8_GroupFirstSeenOrder ==
    Merged =>
        \A ik \in {InputKeys} : \A ok \in {OutputKeys} :
            \* first[s]: the position of the first input posting with the key of survivor s
            \A first \in {[s \in 1..Len(deduped) |->
                              SetMin({i \in 1..Len(dJobs) : ik[i] = ok[s]})]} :
                \A a, b \in 1..Len(deduped) : first[a] < first[b] <=> a < b

\* the first survivor is the third posting, which replaced the first one
C8_Witness ==
    /\ Merged
    /\ Len(dJobs) = 3
    /\ Len(deduped) = 2
    /\ deduped[1].id = 3
    /\ deduped[2].id = 2
    /\ score(deduped[2]) < score(deduped[1])

(* C10: the survivors are a duplicate-free selection of the input: each is an
   input posting, no two share a key, every input key has exactly one
   survivor, and each survivor's dedupe_key is key_for(title, company)
   whatever it was before the call. *)
C10_SurvivorsAreDuplicateFreeSelection ==
    Merged =>
        \A ik \in {InputKeys} : \A ok \in {OutputKeys} :
            /\ \A s \in 1..Len(deduped) :
                /\ deduped[s].id \in 1..Len(dJobs)
                /\ deduped[s] = dJobs[deduped[s].id]
                /\ deduped[s].dedupe_key = ok[s]
            /\ \A s, t \in 1..Len(deduped) : s /= t => ok[s] /= ok[t]
            /\ \A i \in 1..Len(dJobs) :
                Cardinality({s \in 1..Len(deduped) : ok[s] = ik[i]}) = 1

\* the postings came in with a stale dedupe_key
C10_Witness ==
    /\ dPhase = "merged"
    /\ dPrior = "stale"
    /\ Len(dJobs) = 3
    /\ Len(deduped) = 2
    /\ deduped[1].dedupe_key = <<"d", "e", "v", "|", "a", "b">>
    /\ deduped[2].dedupe_key = <<"o", "p", "s", "|", "a", "b">>

----------------------------------------------------------------------------
(* URL utilities *)

\* urlparse: the scheme is the text before the first ":", the netloc the text
\* between the "//" that follows and the next "/"
canonical_site_url(url) ==
    IF ~Truthy(url) \/ url = NonStr THEN None
    ELSE LET colons == {i \in 1..Len(url) : url[i] = ":"}
         IN  IF colons = {} THEN None
             ELSE LET scheme == SubSeq(url, 1, SetMin(colons) - 1)
                      rest == SubSeq(url, SetMin(colons) + 1, Len(url))
                      netloc == SplitHead(SubSeq(rest, 3, Len(rest)), "/")
                  IN  IF \/ scheme = <<>>
                         \/ Len(rest) < 2
                         \/ SubSeq(rest, 1, 2) /= <<"/", "/">>
                         \/ netloc = <<>>
                      THEN None
                      ELSE scheme \o <<":", "/", "/">> \o netloc

\* FAVICON_TMPL.format(url=quote(company_url, safe=":/"))
favicon_url(company_url) ==
    IF ~Truthy(company_url) THEN None
    ELSE <<"f", "?", "u", "r", "l", "=">> \o company_url \o <<"&", "s">>

\* Python's "x or y"
Or(x, y) == IF Truthy(x) THEN x ELSE y

----------------------------------------------------------------------------
(* parse_python_jobs: one qualifying feed item and its detail page *)

ParsePyItem(item, id) ==
    LET company == IF "," \in Range(item.title)
                   THEN Strip(SplitTail(item.title, ",")) ELSE None
        apply_url == item.apply
        company_url == canonical_site_url(IF item.web /= None THEN item.web
                                          ELSE apply_url)
        job == [id |-> id, title |-> item.title, company |-> company,
                location |-> item.location,
                date_posted |-> IF item.posted /= None THEN item.posted ELSE item.pub,
                salary |-> item.salary, employment_type |-> item.employment,
                skills |-> item.skills, full_offer_text |-> item.text,
                apply_url |-> apply_url, company_url |-> company_url,
                image_url |-> favicon_url(company_url), dedupe_key |-> None]
    IN  Keyed(job, key_for(job.title, job.company))

----------------------------------------------------------------------------
(* parse_bwd_jobs: one detail page.  A page is the result of its regular
   expression searches (None where a search found nothing) and ld, the dict of
   its JSON-LD block ({} when the block is absent or malformed: every get
   gives None). *)

\* (obj or {}).get(field) if isinstance(obj, dict) else None
LdGet(obj, field) == IF obj.isDict THEN obj[field] ELSE None

\* title.split("@", 1)[1].strip() if "@" in title else None
MarkupCompany(page) ==
    IF "@" \in Range(page.title) THEN Strip(SplitTail(page.title, "@")) ELSE None

\* location=strip_tags(location.group(1)) if location else <the JSON-LD address>
BwdLocation(page) ==
    IF page.mLocation /= None THEN page.mLocation
    ELSE LdGet(page.ld.jobLocation, "address")

BwdCompany(page) == Or(LdGet(page.ld.hiringOrganization, "name"), MarkupCompany(page))

BwdApplyUrl(page) == Or(page.ld.url, page.mApply)

BwdDatePosted(page) == Or(page.ld.datePosted, page.mPosted)

BwdEmploymentType(page) == Or(page.ld.employmentType, page.employment)

\* the Job(...) of one page, before its dedupe_key is set
BwdJob(page, id) ==
    LET apply_url == BwdApplyUrl(page)
        company_url == canonical_site_url(apply_url)
    IN  [id |-> id, title |-> page.title, company |-> BwdCompany(page),
         location |-> BwdLocation(page), date_posted |-> BwdDatePosted(page),
         salary |-> page.mSalary, employment_type |-> BwdEmploymentType(page),
         skills |-> page.skills, full_offer_text |-> page.text,
         apply_url |-> apply_url, company_url |-> company_url,
         image_url |-> favicon_url(company_url), dedupe_key |-> None]

\* norm(company) calls company.lower(): AttributeError unless company is a str or falsy
KeyForRaises(job) == job.company = NonStr

----------------------------------------------------------------------------
(* write_rss *)

\* the optional fields write_rss escapes (title, url, the guid and the description
\* are escaped too, and are always a str)
EscapedFields == {"company", "location", "salary", "image_url", "company_url", "apply_url"}

\* html.escape(job.get(f) or ""): AttributeError when the value is truthy and not a str
EscapeRaises(job) == \E f \in EscapedFields : job[f] = NonStr

----------------------------------------------------------------------------
(* One run of main on a feed of python.org items and a listing of
   builtwithdjango.com pages (in the sorted order of their links). *)

PyItems ==
    {[title |-> <<"D", "e", "v", ",", " ", "A", "b">>, location |-> <<"x">>,
      posted |-> None, pub |-> <<"1">>, salary |-> None, employment |-> None,
      skills |-> <<>>, text |-> <<"s">>, apply |-> None, web |-> None],
     [title |-> TitleOps, location |-> None,
      posted |-> <<"2">>, pub |-> <<"1">>, salary |-> None, employment |-> None,
      skills |-> <<"Django">>, text |-> <<"l", "l">>,
      apply |-> <<"h", ":", "/", "/", "p", "/", "a">>, web |-> None]}

Feeds == {<<>>} \cup {<<item>> : item \in PyItems}

MarkupUrl == <<"h", ":", "/", "/", "m", "/", "a">>
LdUrl == <<"h", ":", "/", "/", "l", "/", "a">>
LdText == <<"l", "d">>
MarkupText == <<"m">>

LdObjects(field) ==
    {[isDict |-> FALSE, name |-> None, address |-> None]}
    \cup {[[isDict |-> TRUE, name |-> None, address |-> None] EXCEPT ![field] = v] :
            v \in {None, Company, NonStr}}

LdBlocks ==
    [url : {None, LdUrl, NonStr},
     hiringOrganization : LdObjects("name"),
     jobLocation : LdObjects("address"),
     datePosted : {None, LdText},
     employmentType : {None, LdText}]

Pages ==
    [title : {TitleDev, TitleDevAt},
     text : {<<"s">>},
     mLocation : {None, MarkupText},
     mSalary : {None},
     mPosted : {None, MarkupText},
     mApply : {None, MarkupUrl},
     employment : {None, MarkupText},
     skills : {<<>>},
     ld : LdBlocks]

Listings == {<<>>} \cup {<<page>> : page \in Pages}

NoPayload ==
    [counts |-> [python_org |-> 0, builtwithdjango |-> 0, input_count |-> 0,
                 output_count |-> 0, duplicates_removed |-> 0],
     jobs |-> <<>>]

IdleMain ==
    /\ feed = <<>>
    /\ listing = <<>>
    /\ pc = "idle"
    /\ pyJobs = <<>>
    /\ bwdJobs = <<>>
    /\ payload = NoPayload
    /\ jsonFile = FALSE
    /\ rssFile = FALSE
    /\ failure = "none"

InitMain ==
    /\ feed \in Feeds
    /\ listing \in Listings
    /\ pc = "start"
    /\ pyJobs = <<>>
    /\ bwdJobs = <<>>
    /\ payload = NoPayload
    /\ jsonFile = FALSE
    /\ rssFile = FALSE
    /\ failure = "none"

\* an exception leaves main: the process ends with a traceback and a non-zero status
Raise(why) ==
    /\ pc' = "raised"
    /\ failure' = why

\* python_jobs = parse_python_jobs(); a fetch of the feed or of a detail page may raise
ParsePythonJobs ==
    /\ pc = "start"
    /\ \/ /\ Raise("transport")
          /\ UNCHANGED pyJobs
       \/ /\ pyJobs' = [i \in 1..Len(feed) |-> ParsePyItem(feed[i], i)]
          /\ pc' = "python_parsed"
          /\ UNCHANGED failure
    /\ UNCHANGED <<feed, listing, bwdJobs, payload, jsonFile, rssFile>>
    /\ UNCHANGED <<keyVars, dedupeVars>>

\* listing = fetch(BWD_JOBS)
FetchListing ==
    /\ pc = "python_parsed"
    /\ \/ Raise("transport")
       \/ /\ pc' = "bwd_loop"
          /\ UNCHANGED failure
    /\ UNCHANGED <<feed, listing, pyJobs, bwdJobs, payload, jsonFile, rssFile>>
    /\ UNCHANGED <<keyVars, dedupeVars>>

\* one iteration of the loop of parse_bwd_jobs
ParseBwdPage ==
    /\ pc = "bwd_loop"
    /\ Len(bwdJobs) < Len(listing)
    /\ LET job == BwdJob(listing[Len(bwdJobs) + 1], Len(feed) + Len(bwdJobs) + 1)
       IN  \/ /\ Raise("transport")
              /\ UNCHANGED bwdJobs
           \/ /\ KeyForRaises(job)
              /\ Raise("key_for")
              /\ UNCHANGED bwdJobs
           \/ /\ ~KeyForRaises(job)
              /\ bwdJobs' = Append(bwdJobs, Keyed(job, key_for(job.title, job.company)))
              /\ UNCHANGED <<pc, failure>>
    /\ UNCHANGED <<feed, listing, pyJobs, payload, jsonFile, rssFile>>
    /\ UNCHANGED <<keyVars, dedupeVars>>

\* the rest of build_feed: merged, stats = dedupe(python_jobs + bwd_jobs)
BuildFeed ==
    /\ pc = "bwd_loop"
    /\ Len(bwdJobs) = Len(listing)
    /\ LET merged == dedupe(pyJobs \o bwdJobs)
           st == Stats(pyJobs \o bwdJobs, merged)
       IN  payload' =
             [counts |-> [python_org |-> Len(pyJobs), builtwithdjango |-> Len(bwdJobs),
                          input_count |-> st.input_count,
                          output_count |-> st.output_count,
                          duplicates_removed |-> st.duplicates_removed],
              jobs |-> merged]
    /\ pc' = "built"
    /\ UNCHANGED <<feed, listing, pyJobs, bwdJobs, jsonFile, rssFile, failure>>
    /\ UNCHANGED <<keyVars, dedupeVars>>

\* the two mkdir(parents=True, exist_ok=True)
MakeDirs ==
    /\ pc = "built"
    /\ \/ Raise("mkdir")
       \/ /\ pc' = "dirs"
          /\ UNCHANGED failure
    /\ UNCHANGED <<feed, listing, pyJobs, bwdJobs, payload, jsonFile, rssFile>>
    /\ UNCHANGED <<keyVars, dedupeVars>>

\* json_path.write_text(json.dumps(payload, ...))
WriteJson ==
    /\ pc = "dirs"
    /\ \/ /\ Raise("write_json")
          /\ UNCHANGED jsonFile
       \/ /\ jsonFile' = TRUE
          /\ pc' = "json_written"
          /\ UNCHANGED failure
    /\ UNCHANGED <<feed, listing, pyJobs, bwdJobs, payload, rssFile>>
    /\ UNCHANGED <<keyVars, dedupeVars>>

\* write_rss(payload, rss_path): every item is built before the file is written
WriteRss ==
    /\ pc = "json_written"
    /\ \/ /\ \E i \in 1..Len(payload.jobs) : EscapeRaises(payload.jobs[i])
          /\ Raise("escape")
          /\ UNCHANGED rssFile
       \/ /\ \A i \in 1..Len(payload.jobs) : ~EscapeRaises(payload.jobs[i])
          /\ \/ /\ Raise("write_rss")
                /\ UNCHANGED rssFile
             \/ /\ rssFile' = TRUE
                /\ pc' = "rss_written"
                /\ UNCHANGED failure
    /\ UNCHANGED <<feed, listing, pyJobs, bwdJobs, payload, jsonFile>>
    /\ UNCHANGED <<keyVars, dedupeVars>>

\* print(json.dumps(payload["counts"])); return 0
Report ==
    /\ pc = "rss_written"
    /\ pc' = "done"
    /\ UNCHANGED <<feed, listing, pyJobs, bwdJobs, payload, jsonFile, rssFile, failure>>
    /\ UNCHANGED <<keyVars, dedupeVars>>

NextMain ==
    \/ ParsePythonJobs
    \/ FetchListing
    \/ ParseBwdPage
    \/ BuildFeed
    \/ MakeDirs
    \/ WriteJson
    \/ WriteRss
    \/ Report

Ended == pc \in {"done", "raised"}

\* the failures of the disk itself, which the claim does not list
DiskFailures == {"mkdir", "write_json", "write_rss"}

(* C6: a run of main has no partial-success outcome: when it has ended, by
   returning or by a failure in retrieval, parsing, merging or serialization,
   either both output files are written or neither is. *)
C6_NoPartialOutput ==
    (Ended /\ failure \notin DiskFailures) => (jsonFile = rssFile)

\* the structured-data value and the markup-derived value of each named field
LdValue(page, f) ==
    CASE f = "apply_url" -> page.ld.url
      [] f = "company" -> LdGet(page.ld.hiringOrganization, "name")
      [] f = "location" -> LdGet(page.ld.jobLocation, "address")
      [] f = "date_posted" -> page.ld.datePosted
      [] f = "employment_type" -> page.ld.employmentType

MarkupValue(page, f) ==
    CASE f = "apply_url" -> page.mApply
      [] f = "company" -> MarkupCompany(page)
      [] f = "location" -> page.mLocation
      [] f = "date_posted" -> page.mPosted
      [] f = "employment_type" -> page.employment

PreferredFields == {"apply_url", "company", "location", "date_posted", "employment_type"}

(* C7: for each of apply URL, company, location, date_posted and
   employment_type, a posting of parse_bwd_jobs whose page supplies a non-empty
   structured-data value and a markup-derived value carries the
   structured-data value. *)
C7_StructuredDataPreferred ==
    \A i \in 1..Len(bwdJobs) :
        \A f \in PreferredFields :
            (Truthy(LdValue(listing[i], f)) /\ MarkupValue(listing[i], f) /= None)
                => bwdJobs[i][f] = LdValue(listing[i], f)

----------------------------------------------------------------------------

InitK == InitKey /\ IdleDedupe /\ IdleMain

SpecKey == InitK /\ [][NextKey]_vars

InitD == InitDedupe /\ IdleKey /\ IdleMain

SpecDedupe == InitD /\ [][NextDedupe]_vars

InitM == InitMain /\ IdleKey /\ IdleDedupe

SpecMain == InitM /\ [][NextMain]_vars

====
